---- MODULE Spec2Model ----
(***************************************************************************)
(* A model of valdn (src/valdn.go): the validation session, the annotation *)
(* merger (addTagRules), the traversal (validateStruct / validateMap /     *)
(* validateSlice / validateByType), the rule expression evaluator          *)
(* (Validate) and the completeness pass (validateNonExistRequiredFields).  *)
(*                                                                         *)
(* Strings are sequences of one-character strings, so that a field path    *)
(* "a.b" is <<"a", ".", "b">>, the root path "" is <<>> and the wildcard   *)
(* key "a.*" is <<"a", ".", "*">>: concatenation and the search for the    *)
(* last separator are computed, not assumed.                               *)
(*                                                                         *)
(* A value is a record [kind, len, kids]:                                  *)
(*   kind "scalar"  a string of length len (len = 0 is the zero value);    *)
(*   kind "map"     a map[string]interface{}, kids its entries;            *)
(*   kind "slice"   a []interface{}, kids its elements in index order;     *)
(*   kind "struct"  a struct, kids its fields in declaration order;        *)
(*   kind "tmap" / "tslice"  a map / slice of another Go type.             *)
(* A kid is [key, tag, val]: the map key or field name (unused for a       *)
(* slice), the field's valdn tag already split on TagSeparator (<<>> is    *)
(* the empty tag) and the value.  A struct field's declared type is the    *)
(* type of its value.  Map keys and field names are one character long and *)
(* hold no separator, so that distinct nodes have distinct paths; nil      *)
(* values are left out.                                                    *)
(***************************************************************************)
EXTENDS Integers, Sequences, FiniteSets, TLC

VARIABLES
    val,        \* the value the caller validates
    entry,      \* the entry point the caller uses: "struct", "map", "slice"
    tables,     \* the heap of rule tables (Rules maps), by reference
    rules,      \* the caller's rule table: a reference into tables
    v,          \* the validation session of the call in progress (or last)
    pc,         \* the position of the call: "idle", "merged", "traversed"
    results     \* what each finished call returned, in order

vars == <<val, entry, tables, rules, v, pc, results>>

(***************************************************************************)
(* Bounds of the model.                                                    *)
(***************************************************************************)
MaxLen == 2      \* scalars are strings of length 0..MaxLen
MaxCalls == 2    \* top-level calls made on the same value and table

(***************************************************************************)
(* Strings and paths.                                                      *)
(***************************************************************************)
Dot == "."
Star == "*"
Digits == <<"0", "1", "2", "3", "4", "5", "6", "7", "8", "9">>

toString(k) == <<Digits[k + 1]>>

makeParentNameJoinable(name) == IF name = <<>> THEN name ELSE name \o <<Dot>>

RECURSIVE LastIndex(_, _)
LastIndex(s, c) ==
    IF s = <<>> THEN 0
    ELSE IF s[Len(s)] = c THEN Len(s)
    ELSE LastIndex(SubSeq(s, 1, Len(s) - 1), c)

getParentName(name) ==
    LET i == LastIndex(name, Dot)
    IN  IF i = 0 THEN <<>> ELSE SubSeq(name, 1, i - 1)

(***************************************************************************)
(* Rule expressions and the registry.  An expression "name:param" is the   *)
(* record [name, param]; the empty expression "" has both empty.           *)
(***************************************************************************)
Expr(n, p) == [name |-> n, param |-> p]
Required == Expr("required", 0)
Min2 == Expr("min", 2)
Unknown == Expr("nope", 0)
Empty == Expr("", 0)

Registered == {"required", "min"}

splitRuleNameAndRuleValue(r) == <<r.name, r.param>>

IsStruct(x) == x.kind = "struct"
IsMap(x) == x.kind \in {"map", "tmap"}
IsSlice(x) == x.kind \in {"slice", "tslice"}

Size(x) == IF x.kind = "scalar" THEN x.len ELSE Len(x.kids)

RECURSIVE IsZero(_)
IsZero(x) ==
    IF x.kind = "struct"
    THEN \A i \in 1..Len(x.kids) : IsZero(x.kids[i].val)
    ELSE Size(x) = 0

\* The message of a failure of rule rName with parameter rVal at path name.
GetErrMsg(rName, rVal, name) == [rule |-> rName, param |-> rVal, field |-> name]

NoErr == [rule |-> "", param |-> 0, field |-> <<>>]

\* The registered rule functions: (path, value, parameter) -> failure or none.
RuleFunc(rName, name, x, rVal) ==
    CASE rName = "required" ->
            IF IsZero(x) THEN GetErrMsg(rName, rVal, name) ELSE NoErr
      [] rName = "min" ->
            IF Size(x) < rVal THEN GetErrMsg(rName, rVal, name) ELSE NoErr
      [] OTHER -> NoErr

getRuleInfo(r) ==
    [rName |-> splitRuleNameAndRuleValue(r)[1],
     rVal |-> splitRuleNameAndRuleValue(r)[2],
     rExist |-> splitRuleNameAndRuleValue(r)[1] \in Registered]

(***************************************************************************)
(* Validate (lines 40-60): the first failure of the expressions in order;  *)
(* a panic at the first unregistered name it reaches.                      *)
(***************************************************************************)
RECURSIVE ValidateFrom(_, _, _, _)

\* Validate with an unregistered name skipped like an empty expression.
ValidateFromSkipUnknown(name, x, rs, i) ==
    IF i > Len(rs) THEN [panic |-> FALSE, err |-> NoErr]
    ELSE IF rs[i] = Empty \/ ~getRuleInfo(rs[i]).rExist
         THEN ValidateFrom(name, x, rs, i + 1)
    ELSE LET info == getRuleInfo(rs[i])
             err == RuleFunc(info.rName, name, x, info.rVal)
         IN  IF err # NoErr THEN [panic |-> FALSE, err |-> err]
             ELSE ValidateFrom(name, x, rs, i + 1)

ValidateFrom(name, x, rs, i) ==
    IF i > Len(rs) THEN [panic |-> FALSE, err |-> NoErr]
    ELSE IF rs[i] = Empty THEN ValidateFrom(name, x, rs, i + 1)
    ELSE LET info == getRuleInfo(rs[i])
         IN  IF ~info.rExist THEN [panic |-> TRUE, err |-> NoErr]
             ELSE LET err == RuleFunc(info.rName, name, x, info.rVal)
                  IN  IF err # NoErr THEN [panic |-> FALSE, err |-> err]
                      ELSE ValidateFrom(name, x, rs, i + 1)

Validate(name, x, rs) == ValidateFrom(name, x, rs, 1)

(***************************************************************************)
(* The session (lines 23-38).  A Rules map is a function from paths to     *)
(* rule specs, an Errors map a function from paths to messages, and        *)
(* fieldsExist the set of its keys.  v.rules is a reference into tables;   *)
(* evald records, for each path, the rule spec handed to Validate, and     *)
(* panicked that the call has panicked.                                    *)
(***************************************************************************)
copyRules(tbl) == [k \in DOMAIN tbl |-> tbl[k]]

\* createNewValidation keeping the caller's map instead of a copy of it.
createNewValidationShared(tabs, r) ==
    [tables |-> tabs,
     v |-> [rules |-> r, errors |-> <<>>, fieldsExist |-> {},
            evald |-> <<>>, panicked |-> FALSE]]

createNewValidation(tabs, r) ==
    [tables |-> Append(tabs, copyRules(tabs[r])),
     v |-> [rules |-> Len(tabs) + 1, errors |-> <<>>, fieldsExist |-> {},
            evald |-> <<>>, panicked |-> FALSE]]

Put(f, k, x) == [p \in DOMAIN f \cup {k} |-> IF p = k THEN x ELSE f[p]]

Lookup(tbl, k) == IF k \in DOMAIN tbl THEN tbl[k] ELSE <<>>

registerField(s, name) == [s EXCEPT !.fieldsExist = @ \cup {name}]

addError(s, name, err) == [s EXCEPT !.errors = Put(@, name, err)]

\* getFieldRules looking at the parent's wildcard before the exact entry.
getFieldRulesWildcardFirst(tbl, name) ==
    IF getParentName(name) \o <<Dot, Star>> \in DOMAIN tbl
    THEN tbl[getParentName(name) \o <<Dot, Star>>]
    ELSE Lookup(tbl, name)

getFieldRules(tbl, name) ==
    IF name \in DOMAIN tbl THEN tbl[name]
    ELSE Lookup(tbl, getParentName(name) \o <<Dot, Star>>)

getParentRules(tbl, name) ==
    IF name \in DOMAIN tbl THEN tbl[name]
    ELSE IF name # <<>> THEN Lookup(tbl, getParentName(name) \o <<Dot, Star>>)
    ELSE <<>>

(***************************************************************************)
(* The order in which a range over a map yields its entries: ord lists the *)
(* keys, and the entries come out in that order.                           *)
(***************************************************************************)
RECURSIVE RangeMap(_, _, _)
RangeMap(kids, ord, i) ==
    IF i > Len(ord) THEN <<>>
    ELSE SelectSeq(kids, LAMBDA e : e.key = ord[i]) \o RangeMap(kids, ord, i + 1)

(***************************************************************************)
(* addTagRules (lines 171-212).  hasVal says that val is the runtime value *)
(* itself; line 208 passes the reflect.StructField f in its place, and     *)
(* then neither type assertion of lines 175 and 184 succeeds.              *)
(***************************************************************************)
RECURSIVE addTagRules(_, _, _, _, _)
RECURSIVE addTagRulesEntries(_, _, _, _)
RECURSIVE addTagRulesFields(_, _, _, _, _)

\* The loops of lines 176-181 and 185-190 over items: <<path, value>> pairs.
addTagRulesEntries(tbl, items, i, ord) ==
    IF i > Len(items) THEN tbl
    ELSE LET it == items[i]
             t1 == IF IsStruct(it[2]) \/ IsMap(it[2]) \/ IsSlice(it[2])
                   THEN addTagRules(tbl, it[2], TRUE, it[1], ord)
                   ELSE tbl
         IN  addTagRulesEntries(t1, items, i + 1, ord)

\* The loop of lines 194-210 without the test that the field has no rules.
addTagRulesFieldsOverwrite(tbl, fields, i, parName, ord) ==
    IF i > Len(fields) THEN tbl
    ELSE LET f == fields[i]
             name == parName \o <<f.key>>
             t1 == IF f.tag # <<>> THEN Put(tbl, name, f.tag) ELSE tbl
             t2 == IF f.val.kind \in {"struct", "map", "tmap", "slice", "tslice"}
                   THEN addTagRules(t1, f.val, FALSE, name, ord)
                   ELSE t1
         IN  addTagRulesFields(t2, fields, i + 1, parName, ord)

\* The loop of lines 194-210 over the fields of the struct type.
addTagRulesFields(tbl, fields, i, parName, ord) ==
    IF i > Len(fields) THEN tbl
    ELSE LET f == fields[i]
             name == parName \o <<f.key>>
             t1 == IF name \notin DOMAIN tbl /\ f.tag # <<>>
                   THEN Put(tbl, name, f.tag)
                   ELSE tbl
             t2 == IF f.val.kind \in {"struct", "map", "tmap", "slice", "tslice"}
                   THEN addTagRules(t1, f.val, FALSE, name, ord)
                   ELSE t1
         IN  addTagRulesFields(t2, fields, i + 1, parName, ord)

addTagRules(tbl, x, hasVal, parName0, ord) ==
    LET parName == makeParentNameJoinable(parName0)
        t1 == IF hasVal /\ x.kind = "map"
              THEN LET es == RangeMap(x.kids, ord, 1)
                   IN  addTagRulesEntries(tbl,
                           [i \in 1..Len(es) |-> <<parName \o <<es[i].key>>, es[i].val>>],
                           1, ord)
              ELSE tbl
        t2 == IF hasVal /\ x.kind = "slice"
              THEN addTagRulesEntries(t1,
                       [i \in 1..Len(x.kids) |-> <<parName \o toString(i - 1), x.kids[i].val>>],
                       1, ord)
              ELSE t1
    IN  IF x.kind = "struct"
        THEN addTagRulesFields(t2, x.kids, 1, parName, ord)
        ELSE t2

(***************************************************************************)
(* The traversal (lines 214-302).  Each operator takes the session s and   *)
(* the session's rule table tbl and yields the session after the call; a   *)
(* panic unwinds, so nothing runs in a session that has panicked.          *)
(***************************************************************************)
RECURSIVE validateByType(_, _, _, _, _)
RECURSIVE validateEach(_, _, _, _, _)

\* The loops leaving at the first error recorded.
validateEachUntilError(s, tbl, items, i, ord) ==
    IF i > Len(items) \/ s.panicked \/ s.errors # <<>> THEN s
    ELSE validateEach(validateByType(s, tbl, items[i][1], items[i][2], ord),
                      tbl, items, i + 1, ord)

\* The loop bodies of lines 276-283, 288-292 and 297-301 over items.
validateEach(s, tbl, items, i, ord) ==
    IF i > Len(items) \/ s.panicked THEN s
    ELSE validateEach(validateByType(s, tbl, items[i][1], items[i][2], ord),
                      tbl, items, i + 1, ord)

IsExported(key) == key \in {"A", "B", "C", "D"}

validateStructFields(s, tbl, x, parName0, ord) ==
    LET parName == makeParentNameJoinable(parName0)
        fs == SelectSeq(x.kids, LAMBDA f : IsExported(f.key))
    IN  validateEach(s, tbl,
            [i \in 1..Len(fs) |-> <<parName \o <<fs[i].key>>, fs[i].val>>], 1, ord)

validateMapFields(s, tbl, x, parName0, ord) ==
    LET parName == makeParentNameJoinable(parName0)
        es == RangeMap(x.kids, ord, 1)
    IN  validateEach(s, tbl,
            [i \in 1..Len(es) |-> <<parName \o <<es[i].key>>, es[i].val>>], 1, ord)

validateSliceFields(s, tbl, x, parName0, ord) ==
    LET parName == makeParentNameJoinable(parName0)
    IN  validateEach(s, tbl,
            [i \in 1..Len(x.kids) |-> <<parName \o toString(i - 1), x.kids[i].val>>],
            1, ord)

Evald(s, name, r) == [s EXCEPT !.evald = Put(@, name, r)]

Panic(s) == [s EXCEPT !.panicked = TRUE]

validateStruct(s, tbl, x, name, ord) ==
    LET r == getParentRules(tbl, name)
        res == Validate(name, x, r)
        s1 == Evald(s, name, r)
    IN  IF res.panic THEN Panic(s1)
        ELSE IF res.err # NoErr THEN addError(s1, name, res.err)
        ELSE validateStructFields(s1, tbl, x, name, ord)

validateMap(s, tbl, x, name, ord) ==
    IF x.kind # "map" THEN Panic(s)
    ELSE LET r == getParentRules(tbl, name)
             res == Validate(name, x, r)
             s1 == Evald(s, name, r)
         IN  IF res.panic THEN Panic(s1)
             ELSE IF res.err # NoErr THEN addError(s1, name, res.err)
             ELSE validateMapFields(s1, tbl, x, name, ord)

validateSlice(s, tbl, x, name, ord) ==
    IF x.kind # "slice" THEN Panic(s)
    ELSE LET r == getParentRules(tbl, name)
             res == Validate(name, x, r)
             s1 == Evald(s, name, r)
         IN  IF res.panic THEN Panic(s1)
             ELSE IF res.err # NoErr THEN addError(s1, name, res.err)
             ELSE validateSliceFields(s1, tbl, x, name, ord)

validateByType(s, tbl, name, x, ord) ==
    LET s1 == registerField(s, name)
        rs == getFieldRules(tbl, name)
    IN  CASE x.kind = "struct" -> validateStruct(s1, tbl, x, name, ord)
          [] x.kind \in {"map", "tmap"} -> validateMap(s1, tbl, x, name, ord)
          [] x.kind \in {"slice", "tslice"} -> validateSlice(s1, tbl, x, name, ord)
          [] OTHER ->
                LET res == Validate(name, x, rs)
                    s2 == Evald(s1, name, rs)
                IN  IF res.panic THEN Panic(s2)
                    ELSE IF res.err # NoErr THEN addError(s2, name, res.err)
                    ELSE s2

(***************************************************************************)
(* validateNonExistRequiredFields (lines 304-319).  The range over the     *)
(* rule table assigns at most one key each, so its order does not matter;  *)
(* within one spec the last "required" expression's message stays.         *)
(***************************************************************************)
RECURSIVE requiredMsg(_, _, _, _)
requiredMsg(name, rs, i, msg) ==
    IF i > Len(rs) THEN msg
    ELSE LET nv == splitRuleNameAndRuleValue(rs[i])
         IN  requiredMsg(name, rs, i + 1,
                 IF nv[1] = "required" THEN GetErrMsg("required", nv[2], name) ELSE msg)

validateNonExistRequiredFields(s, tbl) ==
    LET hit == {name \in DOMAIN tbl :
                    /\ name # <<Star>>
                    /\ name \notin s.fieldsExist
                    /\ requiredMsg(name, tbl[name], 1, NoErr) # NoErr}
    IN  [s EXCEPT !.errors =
            [p \in DOMAIN s.errors \cup hit |->
                IF p \in hit THEN requiredMsg(p, tbl[p], 1, NoErr) ELSE s.errors[p]]]

(***************************************************************************)
(* The inputs: values and rule tables the caller may pass.                 *)
(***************************************************************************)
Kid(k, t, x) == [key |-> k, tag |-> t, val |-> x]
Scalar(n) == [kind |-> "scalar", len |-> n, kids |-> <<>>]
Map(kids) == [kind |-> "map", len |-> 0, kids |-> kids]
Slice(kids) == [kind |-> "slice", len |-> 0, kids |-> kids]
Struct(kids) == [kind |-> "struct", len |-> 0, kids |-> kids]
TypedMap == [kind |-> "tmap", len |-> 0, kids |-> <<>>]
Elem(x) == Kid("", <<>>, x)

Scalars == {Scalar(n) : n \in 0..MaxLen}
Tags == {<<>>, <<Required>>}
MapOrders == {<<"a", "b">>, <<"b", "a">>}

\* Maps and slices of scalars.
Inner ==
    {Map(<<>>), Slice(<<>>)}
    \cup {Map(<<Kid("a", <<>>, s)>>) : s \in Scalars}
    \cup {Slice(<<Elem(s)>>) : s \in Scalars}

Narrow == Scalars \cup {Map(<<Kid("a", <<>>, s)>>) : s \in Scalars}

PlainMaps ==
    {Map(<<>>), Map(<<Kid("a", <<>>, TypedMap)>>)}
    \cup {Map(<<Kid("a", <<>>, x)>>) : x \in Scalars \cup Inner}
    \cup {Map(<<Kid("a", <<>>, x), Kid("b", <<>>, s)>>) : x \in Narrow, s \in Scalars}

PlainSlices ==
    {Slice(<<>>)}
    \cup {Slice(<<Elem(x)>>) : x \in Narrow}
    \cup {Slice(<<Elem(x), Elem(s)>>) : x \in Narrow, s \in Scalars}

\* Structs with annotated fields, alone and inside maps, slices and structs.
Leaf == {Struct(<<Kid("A", t, s)>>) : t \in Tags, s \in Scalars}

TaggedStructs ==
    Leaf
    \cup {Struct(<<Kid("A", t, s), Kid("c", <<Required>>, s)>>) : t \in Tags, s \in Scalars}
    \cup {Struct(<<Kid("A", t, s), Kid("B", <<Required>>, u)>>) :
            t \in Tags, s \in Scalars, u \in Scalars}
    \cup {Struct(<<Kid("A", t, x)>>) : t \in Tags, x \in Leaf}
    \cup {Struct(<<Kid("A", t, Map(<<Kid("a", <<>>, x)>>))>>) : t \in Tags, x \in Leaf}
    \cup {Struct(<<Kid("A", t, Slice(<<Elem(x)>>))>>) : t \in Tags, x \in Leaf}

TaggedMaps == {Map(<<Kid("a", <<>>, x)>>) : x \in Leaf}
TaggedSlices == {Slice(<<Elem(x)>>) : x \in Leaf}

\* Rule specs and rule-table keys.
Specs1 == {<<>>, <<Required>>, <<Min2>>, <<Required, Min2>>}
Specs2 == Specs1 \cup {<<Unknown>>, <<Required, Unknown>>, <<Empty, Required>>}

Path(segs) ==
    CASE Len(segs) = 0 -> <<>>
      [] Len(segs) = 1 -> <<segs[1]>>
      [] Len(segs) = 2 -> <<segs[1], Dot, segs[2]>>
      [] Len(segs) = 3 -> <<segs[1], Dot, segs[2], Dot, segs[3]>>

KeysUnder(tops, subs) ==
    {<<>>, <<Star>>, <<Dot, Star>>}
    \cup {Path(<<t>>) : t \in tops}
    \cup {Path(<<t, c>>) : t \in tops, c \in subs}

MapKeys == KeysUnder({"a", "b"}, {"a", "0", Star})
SliceKeys == KeysUnder({"0", "1"}, {"a", Star})
StructKeys ==
    KeysUnder({"A"}, {"A", "a", "0", Star})
    \cup {<<"B">>, <<"c">>, <<"a">>, <<"0">>,
          Path(<<"a", "A">>), Path(<<"0", "A">>),
          Path(<<"A", "a", "A">>), Path(<<"A", "0", "A">>)}

Tables1(keys) == {<<>>} \cup {k :> sp : k \in keys, sp \in Specs2}

Tables2(keys) ==
    Tables1(keys)
    \cup UNION {{(k1 :> s1) @@ (k2 :> s2) : k2 \in keys \ {k1}, s1 \in Specs1, s2 \in Specs1} :
                    k1 \in keys}

NoSession ==
    [rules |-> 0, errors |-> <<>>, fieldsExist |-> {}, evald |-> <<>>, panicked |-> FALSE]

Start(x, e, tbl) ==
    /\ val = x
    /\ entry = e
    /\ tables = <<tbl>>
    /\ rules = 1
    /\ v = NoSession
    /\ pc = "idle"
    /\ results = <<>>

Init ==
    \/ \E x \in PlainMaps, tbl \in Tables2(MapKeys) : Start(x, "map", tbl)
    \/ \E x \in PlainSlices, tbl \in Tables2(SliceKeys) : Start(x, "slice", tbl)
    \/ \E x \in TaggedStructs, tbl \in Tables1(StructKeys) : Start(x, "struct", tbl)
    \/ \E x \in TaggedMaps, tbl \in Tables1(StructKeys) : Start(x, "map", tbl)
    \/ \E x \in TaggedSlices, tbl \in Tables1(StructKeys) : Start(x, "slice", tbl)
    \/ \E x \in {Map(<<>>), Slice(<<>>), Scalar(1)} : Start(x, "struct", <<>>)

(***************************************************************************)
(* The calls.  ValidateStruct, ValidateMap and ValidateSlice (lines 62-115)*)
(* create the session and merge the annotations; Traverse is the call of   *)
(* validateStruct / validateMap / validateSlice on the root, and Complete  *)
(* the completeness pass and the return of v.errors.  A panic ends the     *)
(* call with no Error Map.                                                 *)
(***************************************************************************)
Panicked == [panic |-> TRUE, errors |-> <<>>]
Returned(errs) == [panic |-> FALSE, errors |-> errs]

Begin(ord) ==
    LET c == createNewValidation(tables, rules)
        t == addTagRules(c.tables[c.v.rules], val, TRUE, <<>>, ord)
    IN  /\ tables' = [c.tables EXCEPT ![c.v.rules] = t]
        /\ v' = c.v
        /\ pc' = "merged"
        /\ UNCHANGED <<val, entry, rules, results>>

ValidateStruct ==
    /\ pc = "idle"
    /\ entry = "struct"
    /\ Len(results) < MaxCalls
    /\ IF ~IsStruct(val)
       THEN /\ results' = Append(results, Panicked)
            /\ UNCHANGED <<val, entry, tables, rules, v, pc>>
       ELSE \E ord \in MapOrders : Begin(ord)

ValidateMap ==
    /\ pc = "idle"
    /\ entry = "map"
    /\ Len(results) < MaxCalls
    /\ \E ord \in MapOrders : Begin(ord)

ValidateSlice ==
    /\ pc = "idle"
    /\ entry = "slice"
    /\ Len(results) < MaxCalls
    /\ \E ord \in MapOrders : Begin(ord)

Traversal(ord) ==
    CASE entry = "struct" -> validateStruct(v, tables[v.rules], val, <<>>, ord)
      [] entry = "map" -> validateMap(v, tables[v.rules], val, <<>>, ord)
      [] entry = "slice" -> validateSlice(v, tables[v.rules], val, <<>>, ord)

Traverse ==
    /\ pc = "merged"
    /\ \E ord \in MapOrders :
         LET s == Traversal(ord)
         IN  /\ v' = s
             /\ IF s.panicked
                THEN pc' = "idle" /\ results' = Append(results, Panicked)
                ELSE pc' = "traversed" /\ UNCHANGED results
    /\ UNCHANGED <<val, entry, tables, rules>>

Complete ==
    /\ pc = "traversed"
    /\ v' = validateNonExistRequiredFields(v, tables[v.rules])
    /\ results' = Append(results, Returned(v'.errors))
    /\ pc' = "idle"
    /\ UNCHANGED <<val, entry, tables, rules>>

Next ==
    \/ ValidateStruct
    \/ ValidateMap
    \/ ValidateSlice
    \/ Traverse
    \/ Complete

Spec == Init /\ [][Next]_vars

(***************************************************************************)
(* What the claims speak of, stated from the value and the table alone.    *)
(***************************************************************************)
Join(p, seg) == IF p = <<>> THEN <<seg>> ELSE p \o <<Dot, seg>>

IsComposite(x) == x.kind \in {"map", "slice", "struct"}

\* The children the traversal can see, as <<segment, value>> pairs.
Children(x) ==
    {<<IF x.kind = "slice" THEN Digits[i] ELSE x.kids[i].key, x.kids[i].val>> :
        i \in {j \in 1..Len(x.kids) : x.kind = "struct" => IsExported(x.kids[j].key)}}

Node(p, par, x) == [path |-> p, parent |-> par, val |-> x]

\* Every node of the value, with its path and its parent's path.
RECURSIVE NodesOf(_, _, _)
NodesOf(x, p, par) ==
    {Node(p, par, x)}
    \cup UNION {NodesOf(c[2], Join(p, c[1]), p) : c \in Children(x)}

Nodes == NodesOf(val, <<>>, <<>>)

\* The rule spec that governs a node: exact entry, else the parent's wildcard.
RefResolve(tbl, n) ==
    IF n.path \in DOMAIN tbl THEN tbl[n.path]
    ELSE IF n.path # <<>> /\ n.parent \o <<Dot, Star>> \in DOMAIN tbl
         THEN tbl[n.parent \o <<Dot, Star>>]
         ELSE <<>>

Failing(p, x, spec) ==
    {i \in 1..Len(spec) :
        /\ spec[i] # Empty
        /\ spec[i].name \in Registered
        /\ RuleFunc(spec[i].name, p, x, spec[i].param) # NoErr}

Least(S) == CHOOSE m \in S : \A k \in S : m <= k

\* The failure of the first failing expression of spec, or NoErr.
RefFirstFailure(p, x, spec) ==
    IF Failing(p, x, spec) = {} THEN NoErr
    ELSE LET i == Least(Failing(p, x, spec))
         IN  RuleFunc(spec[i].name, p, x, spec[i].param)

RefFails(tbl, n) == RefFirstFailure(n.path, n.val, RefResolve(tbl, n)) # NoErr

\* The nodes none of whose ancestors fails its own rule spec.
RECURSIVE LiveOf(_, _, _, _)
LiveOf(tbl, x, p, par) ==
    {Node(p, par, x)}
    \cup IF IsComposite(x) /\ ~RefFails(tbl, Node(p, par, x))
         THEN UNION {LiveOf(tbl, c[2], Join(p, c[1]), p) : c \in Children(x)}
         ELSE {}

StrictPrefix(P, q) == Len(q) > Len(P) /\ SubSeq(q, 1, Len(P)) = P

HasRequired(spec) == \E i \in 1..Len(spec) : spec[i].name = "required"

IsWildcard(k) == Len(k) >= 2 /\ k[Len(k) - 1] = Dot /\ k[Len(k)] = Star

SessionTable == tables[v.rules]
CallerTable == tables[rules]
LastResult == results[Len(results)]

\* A call has returned an Error Map, and v is still its session.
Done == pc = "idle" /\ results # <<>> /\ ~LastResult.panic

Live == LiveOf(SessionTable, val, <<>>, <<>>)

(***************************************************************************)
(* The claims.                                                             *)
(***************************************************************************)

\* C1: when a composite at path P fails its own rule spec, the returned
\* Error Map has an entry for P and no entry for any path that has P as a
\* strict prefix, once the whole call (traversal and completeness pass) is
\* over.  Stated for the composites below the root, whose descendants'
\* paths all begin with "P.".
C1_FailedCompositeHidesDescendants ==
    Done =>
        \A n \in Live :
            n.path # <<>> /\ IsComposite(n.val) /\ RefFails(SessionTable, n) =>
                /\ n.path \in DOMAIN LastResult.errors
                /\ \A q \in DOMAIN LastResult.errors : ~StrictPrefix(n.path, q)

\* A table entry governs something present: it is the path of a node of the
\* value, or the wildcard of a parent that has a child.
GovernsPresent(k) ==
    \E n \in Nodes :
        \/ k = n.path
        \/ n.path # <<>> /\ k = n.parent \o <<Dot, Star>>

\* C2: when every rule spec evaluated during traversal succeeds, the root's
\* included, and every entry with "required" governs something present in
\* the value, the returned Error Map is empty.
C2_ValidInputEmptyErrors ==
    ( /\ Done
      /\ \A n \in Live : ~RefFails(SessionTable, n)
      /\ \A k \in DOMAIN SessionTable :
            HasRequired(SessionTable[k]) => GovernsPresent(k) )
    => LastResult.errors = <<>>

\* C3: a wildcard entry "parent.*" with "required" yields no error at a key
\* that is not the path of a child present in the value: none at the
\* literal key "parent.*", none when parent is absent or empty.  Stated for
\* a named parent (the wildcard of the root's children aside).
C3_WildcardOnlyPresentChildren ==
    Done =>
        \A k \in DOMAIN SessionTable :
            ( /\ IsWildcard(k)
              /\ Len(k) > 2
              /\ HasRequired(SessionTable[k])
              /\ k \notin {n.path : n \in Nodes} )
            => k \notin DOMAIN LastResult.errors

\* The message the completeness pass records at path k.
RequiredAbsent(k) == GetErrMsg("required", 0, k)

\* C5: the completeness pass adds a required-but-absent error at an entry's
\* path (the root wildcard aside) exactly when the entry has "required",
\* the path was never visited and no error is recorded for it; it replaces
\* no error recorded during traversal and leaves every other entry as it is.
C5_CompletenessPass ==
    [][ pc = "traversed" /\ pc' = "idle" =>
          LET add == {k \in DOMAIN SessionTable :
                        /\ k # <<Star>>
                        /\ HasRequired(SessionTable[k])
                        /\ k \notin v.fieldsExist
                        /\ k \notin DOMAIN v.errors}
          IN  /\ DOMAIN v'.errors = DOMAIN v.errors \cup add
              /\ \A k \in add : v'.errors[k] = RequiredAbsent(k)
              /\ \A k \in DOMAIN v.errors : v'.errors[k] = v.errors[k]
      ]_vars

\* The annotated fields of the records the traversal can reach, as
\* <<path, tag>> pairs.
Annotated ==
    UNION {{<<Join(n.path, n.val.kids[i].key), n.val.kids[i].tag>> :
                i \in {j \in 1..Len(n.val.kids) : n.val.kids[j].tag # <<>>}} :
            n \in {m \in Nodes : m.val.kind = "struct"}}

\* C10: before traversal starts, the session table holds the annotation
\* rule spec of every annotated field, with no explicit exact entry, of
\* every record the traversal can reach, wherever the record is nested.
C10_MergerCoverage ==
    pc = "merged" =>
        \A a \in Annotated :
            a[1] \notin DOMAIN CallerTable =>
                a[1] \in DOMAIN SessionTable /\ SessionTable[a[1]] = a[2]

\* C4: a failure recorded at one path never prevents the evaluation of a
\* path outside its subtree: every path none of whose ancestors failed is
\* visited, has an entry in the Error Map iff some expression of its
\* resolved rule spec fails on its value, and the entry is the failure of
\* the first failing expression.
C4_SiblingIndependence ==
    Done =>
        \A n \in Live :
            n.path # <<>> =>
                /\ n.path \in v.fieldsExist
                /\ LET e == RefFirstFailure(n.path, n.val, RefResolve(SessionTable, n))
                   IN  IF e = NoErr
                       THEN n.path \notin DOMAIN LastResult.errors
                       ELSE /\ n.path \in DOMAIN LastResult.errors
                            /\ LastResult.errors[n.path] = e

\* A failed composite and a failed sibling of it are both in the Error Map,
\* the sibling by the second expression of its spec.
C4_Witness ==
    /\ Done
    /\ \E n \in Live, m \in Live :
          /\ n.path # m.path /\ n.path # <<>> /\ m.path # <<>>
          /\ n.parent = m.parent
          /\ IsComposite(n.val)
          /\ {n.path, m.path} \subseteq DOMAIN LastResult.errors
          /\ Least(Failing(m.path, m.val, RefResolve(SessionTable, m))) = 2

\* C6: the merger inserts annotation rules only at paths with no explicit
\* exact entry and changes no entry the table had before merging, so at a
\* path with both an explicit entry and an annotation only the explicit
\* rule spec is evaluated, by the traversal and by the completeness pass.
C6_ExplicitWins ==
    v.rules # 0 =>
        /\ \A k \in DOMAIN CallerTable :
              k \in DOMAIN SessionTable /\ SessionTable[k] = CallerTable[k]
        /\ \A k \in DOMAIN SessionTable \ DOMAIN CallerTable :
              <<k, SessionTable[k]>> \in Annotated
        /\ \A k \in DOMAIN v.evald \cap DOMAIN CallerTable :
              v.evald[k] = CallerTable[k]
        /\ Done =>
              \A k \in DOMAIN CallerTable \ (v.fieldsExist \cup {<<>>, <<Star>>}) :
                  k \in DOMAIN LastResult.errors <=> HasRequired(CallerTable[k])

\* A field with an explicit entry and a different annotation was evaluated.
C6_Witness ==
    /\ Done
    /\ \E a \in Annotated :
          /\ a[1] \in DOMAIN CallerTable
          /\ CallerTable[a[1]] # a[2]
          /\ a[1] \in DOMAIN v.evald
          /\ a[1] \in DOMAIN LastResult.errors

\* C7: two validations of the same value against the same table return the
\* same Error Map whatever the order of the map ranges, no step changes the
\* caller's table, and each call starts from an empty session of its own.
C7_IdempotentIsolated ==
    [][ /\ tables'[rules'] = tables[rules]
        /\ \A i, j \in 1..Len(results') : results'[i] = results'[j]
        /\ pc' = "merged" =>
              /\ v'.errors = <<>>
              /\ v'.fieldsExist = {}
              /\ v'.rules # rules'
              /\ v'.rules # v.rules
      ]_vars

\* A second call has returned errors after the merger inserted entries.
C7_Witness ==
    /\ Len(results) >= 2
    /\ Done
    /\ LastResult.errors # <<>>
    /\ DOMAIN SessionTable # DOMAIN CallerTable

\* The expressions of spec with an unregistered name.
Unregistered(spec) ==
    {i \in 1..Len(spec) : spec[i] # Empty /\ spec[i].name \notin Registered}

\* C8: whenever the rule spec governing a visited path (or the root) holds
\* a non-empty expression with an unregistered name, the call aborts and
\* returns no Error Map.
C8_UnregisteredAlwaysAborts ==
    Done => \A n \in Live : Unregistered(RefResolve(SessionTable, n)) = {}

\* C8, amended: the call aborts whenever such an expression is reached, that
\* is when no expression before it in the spec fails on the value; and no
\* unregistered name is ever recorded in the Error Map.
C8_UnregisteredReachedAborts ==
    Done =>
        /\ \A n \in Live :
              LET spec == RefResolve(SessionTable, n)
              IN  \A i \in Unregistered(spec) :
                      \E j \in Failing(n.path, n.val, spec) : j < i
        /\ \A k \in DOMAIN LastResult.errors :
              LastResult.errors[k].rule \in Registered

\* A call returned although an evaluated spec names an unregistered rule.
C8_Witness ==
    /\ Done
    /\ \E n \in Live :
          /\ Unregistered(RefResolve(SessionTable, n)) # {}
          /\ n.path \in DOMAIN LastResult.errors

\* C9: the rule spec evaluated at a visited path is the exact entry when
\* there is one (an empty spec included), otherwise the entry at the
\* immediate parent's wildcard, otherwise the empty spec; at the root only
\* an exact entry applies.
C9_PathResolution ==
    v.rules # 0 =>
        \A n \in Nodes :
            n.path \in DOMAIN v.evald =>
                v.evald[n.path] = RefResolve(SessionTable, n)

\* A grandchild was evaluated whose exact entry is the empty spec while its
\* parent's wildcard entry is not, and its value fails the wildcard's spec.
C9_Witness ==
    /\ Done
    /\ \E n \in Nodes :
          /\ Len(n.path) = 3
          /\ n.path \in DOMAIN v.evald
          /\ n.path \in DOMAIN SessionTable
          /\ SessionTable[n.path] = <<>>
          /\ n.parent \o <<Dot, Star>> \in DOMAIN SessionTable
          /\ RefFirstFailure(n.path, n.val, SessionTable[n.parent \o <<Dot, Star>>]) # NoErr

====
